---- MODULE Spec2Model ----
(***************************************************************************)
(* Model of the defect-detection API of src/src/main.py: the Redis-backed  *)
(* result cache (get_redis, the cache key, get / setex), the analyzer      *)
(* (DefectDetector.detect_async), and the HTTP handlers /health, /ready,   *)
(* /detect and /batch-detect.                                              *)
(*                                                                         *)
(* Conventions.  Image bytes are natural numbers (the content of the       *)
(* upload).  Python dicts are functions from key names to values.  Floats  *)
(* with two decimals are integers in hundredths (3.14 is 314).             *)
(***************************************************************************)
EXTENDS Integers, Sequences, FiniteSets, TLC

VARIABLES
    redis_client,   \* the module global redis_client: "None" or "client"
    hash_seed,      \* the per-process secret that keys Python's hash()
    phase,          \* "startup": startup_event still to run; "serving"
    redisUp,        \* whether the Redis backend is reachable
    store,          \* the Redis keyspace: cache key -> [value, ttl]
    resp,           \* the last HTTP response, with the request it answers
    model_loaded,   \* detector.model_loaded
    files,          \* /batch-detect: the uploaded images, in input order
    done,           \* /batch-detect: completed tasks, in completion order
    tasks,          \* /batch-detect: task index -> outcome of the coroutine
    batch_resp      \* /batch-detect: the last response

vars == <<redis_client, hash_seed, phase, redisUp, store, resp, model_loaded,
          files, done, tasks, batch_resp>>

cacheVars == <<redis_client, hash_seed, phase, redisUp, store, resp,
               model_loaded>>
batchVars == <<files, done, tasks, batch_resp>>

(***************************************************************************)
(* Bounds of the model.                                                    *)
(***************************************************************************)
\* image bytes range over 0..MaxImage
MaxImage == 2
\* hash secrets range over 0..MaxSeed
MaxSeed == 1
\* elapsed request times range over 1..MaxElapsed milliseconds
MaxElapsed == 2
\* a batch holds 1..MaxBatch files
MaxBatch == 3

Images  == 0..MaxImage
Seeds   == 0..MaxSeed
Elapsed == 1..MaxElapsed

(***************************************************************************)
(* Program constants.                                                      *)
(***************************************************************************)
max_retries == 5
TTL_SECONDS == 300
MIN_AREA    == 100
MAX_AREA    == 5000
CONFIDENCE  == 85
SIMULATED_MS == 150

None == "None"
EmptyDict == [k \in {} |-> 0]

(***************************************************************************)
(* Dict helpers: d[k] = v on a dict, and dict.get(k, default).             *)
(***************************************************************************)
SetItem(d, k, v) == [x \in DOMAIN d \cup {k} |-> IF x = k THEN v ELSE d[x]]

DictGet(d, k, default) == IF k \in DOMAIN d THEN d[k] ELSE default

(***************************************************************************)
(* json.dumps / json.loads on result dicts.  The serialized form is the    *)
(* sequence of the dict's (key, value) members in insertion order.         *)
(***************************************************************************)
KeyOrder == <<"defects_found", "defect_percentage", "defects", "error",
              "status", "processing_time_ms", "cached">>

RECURSIVE DumpFrom(_, _)
DumpFrom(d, i) ==
    IF i > Len(KeyOrder) THEN <<>>
    ELSE IF KeyOrder[i] \in DOMAIN d
         THEN <<(<<KeyOrder[i], d[KeyOrder[i]]>>)>> \o DumpFrom(d, i + 1)
         ELSE DumpFrom(d, i + 1)

json_dumps(d) == DumpFrom(d, 1)

json_loads(s) ==
    [k \in {s[i][1] : i \in DOMAIN s} |->
        s[CHOOSE i \in DOMAIN s : s[i][1] = k][2]]

(***************************************************************************)
(* The analyzer.  Image.open fails on undecodable bytes; a decoded image   *)
(* has a shape and the external contours cv2.findContours reports, each    *)
(* with its contourArea and boundingRect.                                  *)
(***************************************************************************)
AreaTable == <<50, 314, 2000, 6000>>
SideTable == <<10, 20, 50, 80>>

\* the undecodable upload is image 0, which shares hash values with image 2
Decodable(b) == b # 0

ImageShape(b) == <<100, 100>>

Contours(b) ==
    [i \in 1..(b % 3) |->
        [area |-> AreaTable[((b + i + 1) % 4) + 1],
         bbox |-> <<10 * i, 10 * i, SideTable[((b + i + 1) % 4) + 1],
                    SideTable[((b + i + 1) % 4) + 1]>>]]

\* round(100 * n / d, 2) in hundredths, ties to even
RoundPct(n, d) ==
    LET q == (n * 10000) \div d
        r == (n * 10000) % d
    IN  IF 2 * r > d \/ (2 * r = d /\ q % 2 = 1) THEN q + 1 ELSE q

\* the area band of the contour loop
IsDefect(c) == MIN_AREA < c.area /\ c.area < MAX_AREA

RECURSIVE CollectDefects(_, _)
CollectDefects(cs, i) ==
    IF i > Len(cs) THEN <<>>
    ELSE IF IsDefect(cs[i])
         THEN <<[bbox |-> cs[i].bbox, area |-> cs[i].area,
                 confidence |-> CONFIDENCE]>> \o CollectDefects(cs, i + 1)
         ELSE CollectDefects(cs, i + 1)

RECURSIVE SumArea(_, _)
SumArea(ds, i) == IF i > Len(ds) THEN 0 ELSE ds[i].area + SumArea(ds, i + 1)

\* the dict the except branch of detect_async returns
ErrorResult ==
    [defects_found |-> 0, error |-> "cannot identify image file",
     status |-> "error"]

\* detect_async without its try/except: the decode error propagates
detect_async_raising(b) ==
    IF ~Decodable(b) THEN [exception |-> "UnidentifiedImageError"]
    ELSE LET defects    == CollectDefects(Contours(b), 1)
             total_area == ImageShape(b)[1] * ImageShape(b)[2]
         IN  [defects_found |-> Len(defects),
              defect_percentage |->
                  IF total_area > 0
                  THEN RoundPct(SumArea(defects, 1), total_area) ELSE 0,
              defects |-> defects,
              status |-> "success",
              processing_time_ms |-> SIMULATED_MS]

\* DefectDetector.detect_async: the result dict for image bytes b
detect_async(b) ==
    IF ~Decodable(b) THEN ErrorResult
    ELSE LET defects    == CollectDefects(Contours(b), 1)
             total_area == ImageShape(b)[1] * ImageShape(b)[2]
         IN  [defects_found |-> Len(defects),
              defect_percentage |->
                  IF total_area > 0
                  THEN RoundPct(SumArea(defects, 1), total_area) ELSE 0,
              defects |-> defects,
              status |-> "success",
              processing_time_ms |-> SIMULATED_MS]

(***************************************************************************)
(* The Redis connection.  Every call to the backend is logged as           *)
(* [op, ok]; a failed call raises in the client library.                   *)
(***************************************************************************)
Op(name, ok) == [op |-> name, ok |-> ok]

\* the retry loop with an off-by-one bound: one attempt too many
RECURSIVE RetryLoopMore(_, _, _)
RetryLoopMore(i, k, client) ==
    IF i >= max_retries + 1
    THEN [client |-> client, raised |-> TRUE, ops |-> <<>>]
    ELSE IF i >= k /\ k < max_retries
         THEN [client |-> "client", raised |-> FALSE,
               ops |-> <<Op("ping", TRUE)>>]
         ELSE LET rest == RetryLoopMore(i + 1, k, "client")
              IN  [rest EXCEPT
                     !.ops = <<Op("ping", FALSE), Op("sleep", TRUE)>> \o @]

\* the for loop of get_redis from attempt i on, when the first k pings fail
RECURSIVE RetryLoop(_, _, _)
RetryLoop(i, k, client) ==
    IF i >= max_retries
    THEN [client |-> client, raised |-> TRUE, ops |-> <<>>]
    ELSE IF i >= k
         THEN [client |-> "client", raised |-> FALSE,
               ops |-> <<Op("ping", TRUE)>>]
         ELSE LET rest == RetryLoop(i + 1, k, "client")
              IN  [rest EXCEPT
                     !.ops = <<Op("ping", FALSE), Op("sleep", TRUE)>> \o @]

\* get_redis clearing the global again when every ping has failed
get_redis_reset(client, k) ==
    IF client = None
    THEN LET r == RetryLoop(0, k, client)
         IN  IF r.raised THEN [r EXCEPT !.client = None] ELSE r
    ELSE [client |-> client, raised |-> FALSE, ops |-> <<>>]

\* get_redis(): the global afterwards, whether it raised, the calls it made
get_redis(client, k) ==
    IF client = None
    THEN RetryLoop(0, k, client)
    ELSE [client |-> client, raised |-> FALSE, ops |-> <<>>]

\* the number of values hash() can take: finite (2^64 in CPython), so
\* distinct byte strings share values; scaled down to the smallest range
\* that has both equal and different values
HashSpace == 2

\* hash(image_bytes): keyed by the process's hash secret, finite range
Hash(seed, b) == (b + seed) % HashSpace

\* f"detect:{hash(image_bytes)}"
CacheKey(seed, b) == <<"detect", Hash(seed, b)>>

CacheKeys == {<<"detect", h>> : h \in 0..(HashSpace - 1)}

\* redis GET on the keyspace: the stored string or None
RedisGet(st, key) == IF key \in DOMAIN st THEN st[key].value ELSE None

\* redis SETEX on the keyspace
RedisSetex(st, key, ttl, value) ==
    [x \in DOMAIN st \cup {key} |->
        IF x = key THEN [value |-> value, ttl |-> ttl] ELSE st[x]]

(***************************************************************************)
(* POST /detect.                                                           *)
(***************************************************************************)
\* TryLookup without the except clause: a failure leaves the block
TryLookupUnguarded(client, key, st, k, getOk) ==
    LET conn == get_redis(client, k)
    IN  IF conn.raised
        THEN [client |-> conn.client, ops |-> conn.ops,
              cached_result |-> None, escaped |-> TRUE]
        ELSE IF ~getOk
             THEN [client |-> conn.client,
                   ops |-> conn.ops \o <<Op("get", FALSE)>>,
                   cached_result |-> None, escaped |-> TRUE]
             ELSE [client |-> conn.client,
                   ops |-> conn.ops \o <<Op("get", TRUE)>>,
                   cached_result |-> RedisGet(st, key), escaped |-> FALSE]

\* the first try block of detect_defect (lines 184-194): the connection,
\* the GET, and whether an exception leaves the block
TryLookup(client, key, st, k, getOk) ==
    LET conn == get_redis(client, k)
    IN  IF conn.raised
        THEN [client |-> conn.client, ops |-> conn.ops,
              cached_result |-> None, escaped |-> FALSE]
        ELSE IF ~getOk
             THEN [client |-> conn.client,
                   ops |-> conn.ops \o <<Op("get", FALSE)>>,
                   cached_result |-> None, escaped |-> FALSE]
             ELSE [client |-> conn.client,
                   ops |-> conn.ops \o <<Op("get", TRUE)>>,
                   cached_result |-> RedisGet(st, key), escaped |-> FALSE]

\* the second try block of detect_defect (lines 202-206)
TryStore(client, key, st, result, k, setOk) ==
    LET conn == get_redis(client, k)
    IN  IF conn.raised
        THEN [client |-> conn.client, ops |-> conn.ops, store |-> st,
              escaped |-> FALSE]
        ELSE IF ~setOk
             THEN [client |-> conn.client,
                   ops |-> conn.ops \o <<Op("setex", FALSE)>>,
                   store |-> st, escaped |-> FALSE]
             ELSE [client |-> conn.client,
                   ops |-> conn.ops \o <<Op("setex", TRUE)>>,
                   store |-> RedisSetex(st, key, TTL_SECONDS,
                                        json_dumps(result)),
                   escaped |-> FALSE]

ServerError == [detail |-> "Internal Server Error"]

\* detect_defect: the response and the state it leaves.  k1, getOk, k2 and
\* setOk are what the backend does to the calls made; t is the elapsed time.
detect_defect(b, client, seed, st, k1, getOk, k2, setOk, t) ==
    LET cache_key == CacheKey(seed, b)
        lk        == TryLookup(client, cache_key, st, k1, getOk)
    IN  IF lk.escaped
        THEN [code |-> 500, body |-> ServerError, client |-> lk.client,
              store |-> st, ops |-> lk.ops]
        ELSE IF lk.cached_result # None
        THEN [code |-> 200,
              body |-> SetItem(SetItem(json_loads(lk.cached_result),
                                       "cached", TRUE),
                               "processing_time_ms", t),
              client |-> lk.client, store |-> st, ops |-> lk.ops]
        ELSE LET result == SetItem(SetItem(detect_async(b), "cached", FALSE),
                                   "processing_time_ms", t)
                 wr     == TryStore(lk.client, cache_key, st, result, k2,
                                    setOk)
             IN  IF wr.escaped
                 THEN [code |-> 500, body |-> ServerError,
                       client |-> wr.client, store |-> wr.store,
                       ops |-> lk.ops \o wr.ops]
                 ELSE [code |-> 200, body |-> result, client |-> wr.client,
                       store |-> wr.store, ops |-> lk.ops \o wr.ops]

(***************************************************************************)
(* GET /health and GET /ready.                                             *)
(***************************************************************************)
\* health_check made to depend on the cache backend
health_check_cache(loaded) ==
    IF redisUp
    THEN [code |-> 200,
          body |-> [status |-> "healthy", timestamp |-> "time.time()",
                    model_loaded |-> loaded]]
    ELSE [code |-> 503,
          body |-> [status |-> "unhealthy", timestamp |-> "time.time()",
                    model_loaded |-> loaded]]

\* health_check: the response
health_check(loaded) ==
    [code |-> 200,
     body |-> [status |-> "healthy", timestamp |-> "time.time()",
               model_loaded |-> loaded]]

\* ready_check trusting the client get_redis hands back, without a ping
ready_check_remembered(client, loaded, k, pingOk) ==
    LET conn == get_redis(client, k)
    IN  IF conn.raised
        THEN [code |-> 503,
              body |-> [status |-> "not_ready",
                        error |-> "Cannot connect to Redis"],
              client |-> conn.client, ops |-> conn.ops]
        ELSE [code |-> 200,
              body |-> [status |-> "ready", redis |-> "connected",
                        model |-> IF loaded THEN "loaded" ELSE "loading"],
              client |-> conn.client, ops |-> conn.ops]

\* ready_check: the response and the state it leaves
ready_check(client, loaded, k, pingOk) ==
    LET conn == get_redis(client, k)
    IN  IF conn.raised
        THEN [code |-> 503,
              body |-> [status |-> "not_ready",
                        error |-> "Cannot connect to Redis"],
              client |-> conn.client, ops |-> conn.ops]
        ELSE IF ~pingOk
             THEN [code |-> 503,
                   body |-> [status |-> "not_ready",
                             error |-> "Error connecting to redis-service"],
                   client |-> conn.client,
                   ops |-> conn.ops \o <<Op("ping", FALSE)>>]
             ELSE [code |-> 200,
                   body |-> [status |-> "ready", redis |-> "connected",
                             model |-> IF loaded THEN "loaded"
                                       ELSE "loading"],
                   client |-> conn.client,
                   ops |-> conn.ops \o <<Op("ping", TRUE)>>]

\* get_metrics: the response and the state it leaves.  redis_info is what
\* INFO reports: one connected client, memory growing with the entries held
get_metrics(client, loaded, st, k, infoOk) ==
    LET conn == get_redis(client, k)
    IN  IF conn.raised
        THEN [code |-> 200,
              body |-> [error |-> "Metrics unavailable"],
              client |-> conn.client, ops |-> conn.ops]
        ELSE IF ~infoOk
             THEN [code |-> 200,
                   body |-> [error |-> "Metrics unavailable"],
                   client |-> conn.client,
                   ops |-> conn.ops \o <<Op("info", FALSE)>>]
             ELSE [code |-> 200,
                   body |-> [defect_detector_requests_total |-> 1000,
                             defect_detector_requests_in_progress |-> 0,
                             defect_detector_model_load_status |->
                                 IF loaded THEN 1 ELSE 0,
                             redis_connected_clients |-> 1,
                             redis_used_memory |-> Cardinality(DOMAIN st),
                             timestamp |-> "time.time()"],
                   client |-> conn.client,
                   ops |-> conn.ops \o <<Op("info", TRUE)>>]

(***************************************************************************)
(* POST /batch-detect.  outcomes maps each task that ran to what its       *)
(* coroutine produced; order is the order in which the tasks completed.    *)
(***************************************************************************)
IsException(r) == "exception" \in DOMAIN r

\* results appended as the tasks complete
GatherByCompletion(fs, outcomes, order) ==
    [j \in 1..Len(fs) |-> outcomes[order[j]]]

\* asyncio.gather(*tasks): the results in the order of the awaitables
Gather(fs, outcomes, order) == [i \in 1..Len(fs) |-> outcomes[i]]

\* the sum with the last entry left out
RECURSIVE SumDefectsDropLast(_, _)
SumDefectsDropLast(rs, i) ==
    IF i >= Len(rs) THEN 0
    ELSE DictGet(rs[i], "defects_found", 0) + SumDefectsDropLast(rs, i + 1)

\* sum(r.get("defects_found", 0) for r in results), from entry i on
RECURSIVE SumDefects(_, _)
SumDefects(rs, i) ==
    IF i > Len(rs) THEN 0
    ELSE DictGet(rs[i], "defects_found", 0) + SumDefects(rs, i + 1)

\* batch_detect, from the gathered tasks to the response
batch_detect(fs, outcomes, order) ==
    IF \E i \in 1..Len(fs) : IsException(outcomes[i])
    THEN [code |-> 500, body |-> ServerError]
    ELSE LET results == Gather(fs, outcomes, order)
         IN  [code |-> 200,
              body |-> [total_images |-> Len(results),
                        total_defects |-> SumDefects(results, 1),
                        images_with_defects |->
                            Cardinality({i \in 1..Len(results) :
                                DictGet(results[i], "defects_found", 0) > 0}),
                        results |-> results]]

(***************************************************************************)
(* The state machine.                                                      *)
(***************************************************************************)
NoResp == [endpoint |-> "none", code |-> 0, body |-> EmptyDict,
           image |-> -1, ops |-> <<>>]

NoBatchResp == [code |-> 0, body |-> EmptyDict, files |-> <<>>,
                order |-> <<>>]

Phases == {"startup", "serving"}

Init ==
    /\ redis_client = None
    /\ hash_seed \in Seeds
    /\ phase \in Phases
    /\ redisUp \in BOOLEAN
    /\ store = EmptyDict
    /\ resp = NoResp
    /\ model_loaded = TRUE
    /\ files = <<>>
    /\ done = <<>>
    /\ tasks = EmptyDict
    /\ batch_resp = NoBatchResp

\* how many pings fail before one succeeds, as the backend allows
PingOutcomes(client) ==
    IF client # None THEN {0}
    ELSE IF redisUp THEN 0..max_retries ELSE {max_retries}

\* whether a single call to the backend succeeds
OpOutcomes == IF redisUp THEN BOOLEAN ELSE {FALSE}

\* startup_event
Startup ==
    /\ phase = "startup"
    /\ \E k \in PingOutcomes(redis_client) :
          redis_client' = get_redis(redis_client, k).client
    /\ phase' = "serving"
    /\ UNCHANGED <<hash_seed, redisUp, store, resp, model_loaded, batchVars>>

\* GET /health
HealthCheck ==
    /\ phase = "serving"
    /\ LET r == health_check(model_loaded)
       IN  resp' = [endpoint |-> "/health", code |-> r.code, body |-> r.body,
                    image |-> -1, ops |-> <<>>]
    /\ UNCHANGED <<redis_client, hash_seed, phase, redisUp, store,
                   model_loaded, batchVars>>

\* GET /ready
ReadyCheck ==
    /\ phase = "serving"
    /\ \E k \in PingOutcomes(redis_client), pingOk \in OpOutcomes :
          LET r == ready_check(redis_client, model_loaded, k, pingOk)
          IN  /\ redis_client' = r.client
              /\ resp' = [endpoint |-> "/ready", code |-> r.code,
                          body |-> r.body, image |-> -1, ops |-> r.ops]
    /\ UNCHANGED <<hash_seed, phase, redisUp, store, model_loaded, batchVars>>

\* POST /detect with image bytes b.  An outcome is drawn only for the calls
\* the request makes: no get after a failed connect, no setex after a hit.
Detect ==
    /\ phase = "serving"
    /\ \E b \in Images, t \in Elapsed, k1 \in PingOutcomes(redis_client) :
        \E getOk \in (IF get_redis(redis_client, k1).raised
                       THEN {FALSE} ELSE OpOutcomes) :
        \E setOk \in (IF getOk /\ CacheKey(hash_seed, b) \in DOMAIN store
                       THEN {FALSE} ELSE OpOutcomes) :
        \E k2 \in PingOutcomes(get_redis(redis_client, k1).client) :
            LET r == detect_defect(b, redis_client, hash_seed, store,
                                   k1, getOk, k2, setOk, t)
            IN  /\ redis_client' = r.client
                /\ store' = r.store
                /\ resp' = [endpoint |-> "/detect", code |-> r.code,
                            body |-> r.body, image |-> b, ops |-> r.ops]
    /\ UNCHANGED <<hash_seed, phase, redisUp, model_loaded, batchVars>>

\* a cache entry reaches the end of its TTL
Expire ==
    /\ \E key \in DOMAIN store :
          store' = [x \in DOMAIN store \ {key} |-> store[x]]
    /\ UNCHANGED <<redis_client, hash_seed, phase, redisUp, resp,
                   model_loaded, batchVars>>

\* the Redis backend becomes unreachable, or reachable again
RedisFlip ==
    /\ redisUp' = ~redisUp
    /\ UNCHANGED <<redis_client, hash_seed, phase, store, resp,
                   model_loaded, batchVars>>

\* the process is restarted: module globals are rebuilt, DefectDetector()
\* is constructed, Python draws a new hash secret
Restart ==
    /\ redis_client' = None
    /\ hash_seed' \in Seeds
    /\ phase' \in Phases
    /\ resp' = NoResp
    /\ model_loaded' = TRUE
    /\ UNCHANGED <<redisUp, store, batchVars>>

Next ==
    \/ Startup
    \/ HealthCheck
    \/ ReadyCheck
    \/ Detect
    \/ Expire
    \/ RedisFlip
    \/ Restart

Spec == Init /\ [][Next]_vars

\* redis.Redis(...) is built with socket_connect_timeout only: the socket
\* timeout for a reply keeps its default, None (wait without limit)
socket_timeout == None

\* POST /detect against a backend that accepts the connection and never
\* answers: the ping, get or setex of the request waits for a reply; with no
\* socket timeout the call never returns, and being synchronous it holds
\* the event loop
DetectBlocks ==
    /\ phase = "serving"
    /\ redisUp
    /\ socket_timeout = None
    /\ phase' = "blocked"
    /\ redis_client' = "client"
    /\ UNCHANGED <<hash_seed, redisUp, store, resp, model_loaded, batchVars>>

HangNext ==
    \/ Next
    \/ DetectBlocks

\* Spec with a backend that may also stop answering
HangSpec == Init /\ [][HangNext]_vars

\* GET /metrics
GetMetrics ==
    /\ phase = "serving"
    /\ \E k \in PingOutcomes(redis_client) :
        \E infoOk \in (IF get_redis(redis_client, k).raised
                        THEN {FALSE} ELSE OpOutcomes) :
          LET r == get_metrics(redis_client, model_loaded, store, k, infoOk)
          IN  /\ redis_client' = r.client
              /\ resp' = [endpoint |-> "/metrics", code |-> r.code,
                          body |-> r.body, image |-> -1, ops |-> r.ops]
    /\ UNCHANGED <<hash_seed, phase, redisUp, store, model_loaded, batchVars>>

MetricsNext ==
    \/ Next
    \/ GetMetrics

\* Spec with the metrics endpoint polled as well
MetricsSpec == Init /\ [][MetricsNext]_vars

\* POST /batch-detect arrives with files fs; one coroutine per file
BatchSubmit ==
    /\ phase = "serving"
    /\ files = <<>>
    /\ \E n \in 1..MaxBatch : \E fs \in [1..n -> Images] : files' = fs
    /\ done' = <<>>
    /\ tasks' = EmptyDict
    /\ batch_resp' = NoBatchResp
    /\ UNCHANGED cacheVars

\* the coroutine of file i runs to completion
BatchTask ==
    /\ \E i \in 1..Len(files) :
          /\ i \notin DOMAIN tasks
          /\ tasks' = SetItem(tasks, i, detect_async(files[i]))
          /\ done' = Append(done, i)
    /\ UNCHANGED <<files, batch_resp, cacheVars>>

\* gather returns, the summary is built and sent
BatchRespond ==
    /\ files # <<>>
    /\ Len(done) = Len(files)
    /\ LET r == batch_detect(files, tasks, done)
       IN  batch_resp' = [code |-> r.code, body |-> r.body, files |-> files,
                          order |-> done]
    /\ files' = <<>>
    /\ done' = <<>>
    /\ tasks' = EmptyDict
    /\ UNCHANGED cacheVars

BatchNext ==
    \/ Startup
    \/ BatchSubmit
    \/ BatchTask
    \/ BatchRespond

BatchSpec == Init /\ [][BatchNext]_vars

(***************************************************************************)
(* Properties.                                                             *)
(***************************************************************************)
IsDetect(r) == r.endpoint = "/detect"

Restrict(d, keys) == [k \in DOMAIN d \cap keys |-> d[k]]

\* the fields of a result the analysis decides
AnalysisKeys == {"defects_found", "defect_percentage", "defects", "status",
                 "error"}

\* the fields of a response added per request
EnrichmentKeys == {"cached", "processing_time_ms"}

HasOp(ops, name, ok) ==
    \E i \in DOMAIN ops : ops[i].op = name /\ ops[i].ok = ok

\* get_redis gave up: max_retries pings failed and none succeeded
ConnectFailed(ops) ==
    /\ Cardinality({i \in DOMAIN ops :
                      ops[i].op = "ping" /\ ~ops[i].ok}) = max_retries
    /\ ~HasOp(ops, "ping", TRUE)

\* the cache failed the request: at connect, at get or at set
CacheFailed(ops) ==
    ConnectFailed(ops) \/ HasOp(ops, "get", FALSE) \/ HasOp(ops, "setex", FALSE)

StoredDict(key) == json_loads(store[key].value)

\* C1: no cache entry holds a result whose status is "error".
C1_ErrorNeverCached ==
    \A key \in DOMAIN store : StoredDict(key)["status"] # "error"

\* C2: a /detect request during which the cache failed (connect, get or
\* set) is answered 200 with the analyzer's result for the submitted bytes
\* and cached = false.
C2_CacheDegradation ==
    (IsDetect(resp) /\ CacheFailed(resp.ops)) =>
        /\ resp.code = 200
        /\ "cached" \in DOMAIN resp.body
        /\ resp.body["cached"] = FALSE
        /\ Restrict(resp.body, AnalysisKeys)
             = Restrict(detect_async(resp.image), AnalysisKeys)

\* C2 witness: the connection gave up after max_retries pings, the store
\* failed too, and the request was still answered with a fresh success.
C2_Witness ==
    /\ IsDetect(resp)
    /\ ConnectFailed(resp.ops)
    /\ HasOp(resp.ops, "setex", FALSE)
    /\ resp.code = 200
    /\ resp.body["status"] = "success"
    /\ resp.body["cached"] = FALSE

\* C3: two /detect calls in a row for the same bytes, in one process,
\* return the same defects and defect_percentage, and when the first call
\* wrote the entry, the entry is still there and the cache answers, the
\* second is cached = true and the first cached = false.
C3_Idempotent ==
    [][(IsDetect(resp) /\ IsDetect(resp') /\ resp' # resp
            /\ resp'.image = resp.image) =>
        /\ Restrict(resp'.body, {"defects", "defect_percentage"})
             = Restrict(resp.body, {"defects", "defect_percentage"})
        /\ (/\ HasOp(resp.ops, "setex", TRUE)
            /\ CacheKey(hash_seed, resp.image) \in DOMAIN store
            /\ HasOp(resp'.ops, "get", TRUE))
              => (resp'.body["cached"] = TRUE /\ resp.body["cached"] = FALSE)
      ]_vars

\* C4: no cache entry contains the per-request fields cached or
\* processing_time_ms.
C4_NoEnrichmentStored ==
    \A key \in DOMAIN store :
        DOMAIN StoredDict(key) \cap EnrichmentKeys = {}

\* C5: a /detect response with cached = true carries the defects and
\* defect_percentage the analyzer produces for the submitted bytes.
C5_HitIsOwnResult ==
    (IsDetect(resp) /\ resp.code = 200 /\ resp.body["cached"] = TRUE) =>
        Restrict(resp.body, {"defects", "defect_percentage"})
          = Restrict(detect_async(resp.image), {"defects", "defect_percentage"})

\* C6: the cache key of given bytes is the same in every process
\* incarnation: no step, a restart included, changes the key of any image.
C6_KeyStable ==
    [][\A b \in Images : CacheKey(hash_seed', b) = CacheKey(hash_seed, b)]_vars

\* C7: results[i] of a batch response is the detection result of the i-th
\* submitted image, whatever the order the analyses completed in.
C7_BatchOrder ==
    batch_resp.code # 0 =>
        /\ batch_resp.code = 200
        /\ Len(batch_resp.body.results) = Len(batch_resp.files)
        /\ \A i \in 1..Len(batch_resp.files) :
              batch_resp.body.results[i] = detect_async(batch_resp.files[i])

\* C7 witness: three images with pairwise different results, the second
\* completing last, answered in input order.
C7_Witness ==
    /\ batch_resp.code = 200
    /\ Len(batch_resp.files) = 3
    /\ batch_resp.order = <<1, 3, 2>>
    /\ \A i, j \in 1..3 :
          i # j => detect_async(batch_resp.files[i])
                     # detect_async(batch_resp.files[j])
    /\ \A i \in 1..3 :
          batch_resp.body.results[i] = detect_async(batch_resp.files[i])

\* what a batch of the single image b returns for it
Alone(b) ==
    batch_detect(<<b>>, <<detect_async(b)>>, <<1>>).body.results[1]

\* C8: a batch with an undecodable image is still answered 200 with
\* total_images the number of files; the failed entry has status "error"
\* and every other entry is what its image gets alone.
C8_PartialFailure ==
    (batch_resp.code # 0
        /\ \E i \in 1..Len(batch_resp.files) : ~Decodable(batch_resp.files[i]))
    =>  /\ batch_resp.code = 200
        /\ batch_resp.body.total_images = Len(batch_resp.files)
        /\ \A i \in 1..Len(batch_resp.files) :
              IF Decodable(batch_resp.files[i])
              THEN batch_resp.body.results[i] = Alone(batch_resp.files[i])
              ELSE batch_resp.body.results[i]["status"] = "error"

\* C8 witness: one undecodable image between two valid ones.
C8_Witness ==
    /\ batch_resp.code = 200
    /\ Len(batch_resp.files) = 3
    /\ ~Decodable(batch_resp.files[2])
    /\ Decodable(batch_resp.files[1]) /\ Decodable(batch_resp.files[3])
    /\ batch_resp.body.total_images = 3
    /\ batch_resp.body.results[2]["status"] = "error"
    /\ batch_resp.body.results[1]["status"] = "success"
    /\ batch_resp.body.results[3]["status"] = "success"

\* C9: /ready answers 200 "ready" only when the last call of that check
\* was a ping that succeeded; otherwise it answers 503 "not_ready" with an
\* error, and never another status code.
C9_Readiness ==
    resp.endpoint = "/ready" =>
        /\ resp.code \in {200, 503}
        /\ resp.code = 200 =>
              /\ resp.body["status"] = "ready"
              /\ resp.ops # <<>>
              /\ resp.ops[Len(resp.ops)] = Op("ping", TRUE)
        /\ resp.code = 503 =>
              /\ resp.body["status"] = "not_ready"
              /\ "error" \in DOMAIN resp.body

\* C9 witness: the client was set earlier; the check pinged once, the ping
\* succeeded, and the answer is 200.
C9_Witness ==
    /\ resp.endpoint = "/ready"
    /\ resp.code = 200
    /\ resp.ops = <<Op("ping", TRUE)>>

\* C10: with the analyzer initialized, /health answers 200 "healthy" in
\* every state, whatever the state of the cache.
C10_Liveness ==
    /\ model_loaded =>
          /\ health_check(model_loaded).code = 200
          /\ health_check(model_loaded).body.status = "healthy"
    /\ resp.endpoint = "/health" =>
          (resp.code = 200 /\ resp.body["status"] = "healthy")

\* C10 witness: /health answered 200 while the backend is unreachable and
\* the global client is set.
C10_Witness ==
    /\ resp.endpoint = "/health"
    /\ resp.code = 200
    /\ resp.body["status"] = "healthy"
    /\ ~redisUp
    /\ redis_client = "client"

CountOps(ops, name, ok) ==
    Cardinality({i \in DOMAIN ops : ops[i].op = name /\ ops[i].ok = ok})

\* C11: a request that finds no client makes at most max_retries
\* connection attempts, each failed attempt followed by one fixed delay,
\* and after max_retries failures it gives up: no attempt succeeds and the
\* lookup is not made.
C11_BoundedRetry ==
    IsDetect(resp) =>
        /\ CountOps(resp.ops, "ping", FALSE) + CountOps(resp.ops, "ping", TRUE)
             <= max_retries
        /\ CountOps(resp.ops, "sleep", TRUE) = CountOps(resp.ops, "ping", FALSE)
        /\ \A i \in DOMAIN resp.ops :
              resp.ops[i] = Op("ping", FALSE) =>
                  (i < Len(resp.ops) /\ resp.ops[i + 1].op = "sleep")
        /\ CountOps(resp.ops, "ping", FALSE) = max_retries =>
              /\ ~HasOp(resp.ops, "ping", TRUE)
              /\ ~HasOp(resp.ops, "get", TRUE)
              /\ ~HasOp(resp.ops, "get", FALSE)

\* C11 witness: the backend is unreachable on first use; the request made
\* max_retries failed attempts with max_retries delays and was answered.
C11_Witness ==
    /\ IsDetect(resp)
    /\ resp.code = 200
    /\ CountOps(resp.ops, "ping", FALSE) = max_retries
    /\ CountOps(resp.ops, "sleep", TRUE) = max_retries
    /\ ~HasOp(resp.ops, "ping", TRUE)

\* C12: once a request of this process has exhausted the connection
\* retries, a later /detect request makes no call to the backend.
C12_NoContactAfterExhaustion ==
    [][(ConnectFailed(resp.ops) /\ IsDetect(resp') /\ resp' # resp)
          => resp'.ops = <<>>]_vars

\* the part of a /detect response that does not depend on the clock
Untimed(d) == Restrict(d, AnalysisKeys \cup {"cached"})

\* C13: every entry of a batch response is what /detect answers for that
\* image in the same state, under some behaviour of the backend: the
\* analysis fields and the cached mark of the single-image flow.
C13_BatchRunsDetectFlow ==
    batch_resp.code = 200 =>
        \A i \in 1..Len(batch_resp.files) :
            \E k \in 0..max_retries, getOk \in BOOLEAN, setOk \in BOOLEAN,
               t \in Elapsed :
                Untimed(batch_resp.body.results[i])
                  = Untimed(detect_defect(batch_resp.files[i], redis_client,
                                          hash_seed, store, k, getOk, 0,
                                          setOk, t).body)

\* tasks of the current batch that were created and have not completed
InFlight == Len(files) - Len(done)

\* a concurrency limit that the largest batch exceeds
ConcurrencyLimit == MaxBatch - 1

\* C14: the analyses of one batch in flight at a time never exceed the
\* concurrency limit, whatever the batch size.
C14_BoundedFanOut == InFlight <= ConcurrencyLimit

\* a batch size cap that the largest batch exceeds
BatchCap == MaxBatch - 1

\* C15: one batch request never has more than the cap of images analyzed:
\* a larger batch is rejected (not answered 200) or capped.
C15_BatchCapped ==
    /\ Cardinality(DOMAIN tasks) <= BatchCap
    /\ batch_resp.code = 200 => batch_resp.body.total_images <= BatchCap

RECURSIVE SumFound(_)
SumFound(rs) ==
    IF rs = <<>> THEN 0
    ELSE SumFound(SubSeq(rs, 1, Len(rs) - 1))
           + (IF "defects_found" \in DOMAIN rs[Len(rs)]
              THEN rs[Len(rs)]["defects_found"] ELSE 0)

\* C16: in a batch response total_images is the number of submitted
\* images, total_defects the sum of defects_found over results, and
\* images_with_defects the number of entries with defects_found > 0; an
\* error entry adds 0 to both.
C16_Aggregates ==
    batch_resp.code # 0 =>
        LET body == batch_resp.body
        IN  /\ batch_resp.code = 200
            /\ body.total_images = Len(batch_resp.files)
            /\ body.total_defects = SumFound(body.results)
            /\ body.images_with_defects
                 = Cardinality({i \in DOMAIN body.results :
                                  body.results[i]["defects_found"] > 0})
            /\ \A i \in DOMAIN body.results :
                  body.results[i]["status"] = "error"
                      => body.results[i]["defects_found"] = 0

\* C16 witness: an error entry between two entries with one defect each.
C16_Witness ==
    /\ batch_resp.code = 200
    /\ Len(batch_resp.files) = 3
    /\ batch_resp.body.results[1]["defects_found"] = 1
    /\ batch_resp.body.results[2]["status"] = "error"
    /\ batch_resp.body.results[3]["defects_found"] = 1
    /\ batch_resp.body.total_images = 3
    /\ batch_resp.body.total_defects = 2
    /\ batch_resp.body.images_with_defects = 2

\* C17: every /detect response is 200 with status "success" or "error",
\* an undecodable image gets status "error" with an error description, and
\* every entry of a batch response has a status too.
C17_StatusEverywhere ==
    /\ IsDetect(resp) =>
          /\ resp.code = 200
          /\ "status" \in DOMAIN resp.body
          /\ resp.body["status"] \in {"success", "error"}
          /\ ~Decodable(resp.image) =>
                (resp.body["status"] = "error" /\ "error" \in DOMAIN resp.body)
    /\ batch_resp.code # 0 =>
          /\ batch_resp.code = 200
          /\ \A i \in DOMAIN batch_resp.body.results :
                /\ "status" \in DOMAIN batch_resp.body.results[i]
                /\ batch_resp.body.results[i]["status"]
                     \in {"success", "error"}

\* C18: a decodable image gets 200 with status "success", defects_found
\* and defect_percentage; with no region retained both are 0.
C18_DecodableSucceeds ==
    (IsDetect(resp) /\ Decodable(resp.image)) =>
        /\ resp.code = 200
        /\ resp.body["status"] = "success"
        /\ {"defects_found", "defect_percentage"} \subseteq DOMAIN resp.body
        /\ CollectDefects(Contours(resp.image), 1) = <<>> =>
              (resp.body["defects_found"] = 0
                 /\ resp.body["defect_percentage"] = 0)

\* C19: no /detect request is left waiting for the backend without limit:
\* the process is never held in a backend call that nothing ends.
C19_NeverBlocked == phase # "blocked"

\* C20: two writes for the same bytes store the same value: when a /detect
\* request for the bytes of the previous one writes the entry again while
\* the previous write is still there, the entry does not change.
C20_WritesIdempotent ==
    [][(/\ IsDetect(resp) /\ IsDetect(resp') /\ resp' # resp
        /\ resp'.image = resp.image
        /\ HasOp(resp.ops, "setex", TRUE)
        /\ HasOp(resp'.ops, "setex", TRUE)
        /\ CacheKey(hash_seed, resp.image) \in DOMAIN store)
          => store'[CacheKey(hash_seed, resp.image)]
               = store[CacheKey(hash_seed, resp.image)]]_vars

\* the metrics that do not come from the cache backend
OwnMetrics == {"defect_detector_requests_total",
               "defect_detector_model_load_status"}

\* the metrics read from the cache backend
CacheMetrics == {"redis_connected_clients", "redis_used_memory"}

\* C21: GET /metrics always answers 200 with the total-requests counter and
\* the analyzer-load status (0 or 1); when the cache is unavailable only the
\* cache indicators are missing.
C21_MetricsBestEffort ==
    resp.endpoint = "/metrics" =>
        /\ resp.code = 200
        /\ OwnMetrics \subseteq DOMAIN resp.body
        /\ resp.body["defect_detector_model_load_status"] \in {0, 1}
        /\ IF ConnectFailed(resp.ops) \/ HasOp(resp.ops, "info", FALSE)
           THEN CacheMetrics \cap DOMAIN resp.body = {}
           ELSE CacheMetrics \subseteq DOMAIN resp.body

\* the endpoints whose handler calls get_redis
UsesRedis(r) == r.endpoint \in {"/detect", "/ready"}

\* the pings of ops, successful or not
Pings(ops) == CountOps(ops, "ping", TRUE) + CountOps(ops, "ping", FALSE)

\* C22: the retry loop of get_redis runs at most once per process.  A call
\* in which all 5 pings fail leaves the client set; the second get_redis of
\* that same /detect request returns it unpinged and the setex is tried on
\* it; and every request that starts with the client set makes no retry:
\* no sleep, no ping other than the one /ready itself sends, no failure to
\* connect, and the client stays as it was.
C22_RetryOncePerProcess ==
    [][/\ (UsesRedis(resp') /\ resp' # resp /\ ConnectFailed(resp'.ops))
            => /\ redis_client' = "client"
               /\ Pings(resp'.ops) = max_retries
               /\ IsDetect(resp') =>
                     resp'.ops[Len(resp'.ops)].op = "setex"
       /\ (UsesRedis(resp') /\ resp' # resp /\ redis_client # None)
            => /\ redis_client' = redis_client
               /\ ~HasOp(resp'.ops, "sleep", TRUE)
               /\ ~ConnectFailed(resp'.ops)
               /\ Pings(resp'.ops)
                    = (IF resp'.endpoint = "/ready" THEN 1 ELSE 0)
               /\ IsDetect(resp') => HasOp(resp'.ops, "get", TRUE)
                                       \/ HasOp(resp'.ops, "get", FALSE)]_vars

\* a /detect request whose first get_redis call used up all 5 pings and
\* whose second call handed back the unverified client: the setex was sent
\* on it and went through
C22_Witness ==
    /\ IsDetect(resp)
    /\ ConnectFailed(resp.ops)
    /\ Len(resp.ops) = 2 * max_retries + 1
    /\ resp.ops[Len(resp.ops)] = Op("setex", TRUE)
    /\ redis_client = "client"

====
